---- MODULE Spec2Model ----
(***************************************************************************)
(* create-toolchain: the template reference resolver                        *)
(* (getTemplateInstallPackage) and the createProject pipeline around it.    *)
(*                                                                          *)
(* Strings are sequences of one-character strings, so that the regular      *)
(* expressions of the source are modelled by what they match.               *)
(***************************************************************************)
EXTENDS Integers, Sequences, FiniteSets, TLC

(***************************************************************************)
(* Bounds of the model.                                                     *)
(***************************************************************************)
\* A template is the concatenation of at most MaxParts fragments.
MaxParts == 3

(***************************************************************************)
(* String literals of the source.                                           *)
(***************************************************************************)
FilePrefix == <<"f", "i", "l", "e", ":">>
ProtocolSep == <<":", "/", "/">>
ExtTgz == <<".", "t", "g", "z">>
ExtTarGz == <<".", "t", "a", "r", ".", "g", "z">>
DefaultTemplate == <<"t", "j", "s", "-", "t", "e", "m", "p", "l", "a", "t", "e">>
Dash == <<"-">>
Slash == <<"/">>

(***************************************************************************)
(* JavaScript values: a string or undefined; a completion is a returned     *)
(* string or a thrown TypeError.                                            *)
(***************************************************************************)
Undefined == [def |-> FALSE, s |-> <<>>]
JSString(s) == [def |-> TRUE, s |-> s]
\* mutant: only undefined is falsy
Truthy_DefinedOnly(v) == v.def
\* if (template): undefined and '' are falsy
Truthy(v) == v.def /\ v.s # <<>>
\* x || ''
OrEmpty(v) == IF Truthy(v) THEN v.s ELSE <<>>

Returned(s) == [kind |-> "string", s |-> s]
TypeError == [kind |-> "TypeError", s |-> <<>>]
NotCalled == [kind |-> "none", s |-> <<>>]

(***************************************************************************)
(* String primitives.                                                       *)
(***************************************************************************)
\* s.substring(from - 1): the characters of s from position `from` on
Tail_(s, from) == SubSeq(s, from, Len(s))
\* s.startsWith(p)
StartsWith(s, p) == Len(p) <= Len(s) /\ SubSeq(s, 1, Len(p)) = p
EndsWith(s, p) == Len(p) <= Len(s) /\ SubSeq(s, Len(s) - Len(p) + 1, Len(s)) = p
\* s.includes(p)
Includes(s, p) == \E i \in 1..(Len(s) - Len(p) + 1) : SubSeq(s, i, i + Len(p) - 1) = p
\* the regular expression dot matches any character but a line terminator
IsLineTerminator(c) == c = "\n"
DotAll(s) == \A i \in 1..Len(s) : ~IsLineTerminator(s[i])
\* index of the first c in s at or after `from`, 0 when there is none
FirstIndex(s, c, from) ==
    IF \E i \in from..Len(s) : s[i] = c
    THEN CHOOSE i \in from..Len(s) : s[i] = c /\ \A j \in from..(i - 1) : s[j] # c
    ELSE 0

(***************************************************************************)
(* The regular expressions of getTemplateInstallPackage.                    *)
(***************************************************************************)
\* template.match(/^file:/)
MatchFile(t) == StartsWith(t, FilePrefix)

\* template.match(/^file:(.*)?$/): null when the rest holds a line terminator
\* (the dot stops there and $ only matches at the end of input); group 1 is
\* undefined when the rest is empty (an optional group never matches empty).
MatchFilePath(t) ==
    LET rest == Tail_(t, Len(FilePrefix) + 1) IN
    IF ~StartsWith(t, FilePrefix) \/ ~DotAll(rest)
    THEN [ok |-> FALSE, g1 |-> Undefined]
    ELSE [ok |-> TRUE, g1 |-> IF rest = <<>> THEN Undefined ELSE JSString(rest)]

\* template.match(/^.+\.(tgz|tar\.gz)$/)
MatchArchive(t) ==
    /\ DotAll(t)
    /\ \/ EndsWith(t, ExtTgz) /\ Len(t) > Len(ExtTgz)
       \/ EndsWith(t, ExtTarGz) /\ Len(t) > Len(ExtTarGz)

\* the name group taking everything up to the end, '@' included
MatchNameVersion_NameToEnd(t, from) ==
    [ok |-> TRUE,
     name |-> IF Tail_(t, from) = <<>> THEN Undefined ELSE JSString(Tail_(t, from)),
     version |-> Undefined]

\* ([^@]+)?(@.+)?$ applied at position `from`: the name is the longest run
\* without '@' (a shorter run leaves a non-'@' character that neither the
\* version nor $ accepts), the version is '@' and at least one character, none
\* of them a line terminator, up to the end of input.
MatchNameVersion(t, from) ==
    LET at == FirstIndex(t, "@", from)
        nameEnd == IF at = 0 THEN Len(t) ELSE at - 1
        name == SubSeq(t, from, nameEnd)
        rest == Tail_(t, nameEnd + 1)
    IN  IF rest = <<>>
        THEN [ok |-> TRUE,
              name |-> IF name = <<>> THEN Undefined ELSE JSString(name),
              version |-> Undefined]
        ELSE IF Len(rest) >= 2 /\ DotAll(Tail_(rest, 2))
        THEN [ok |-> TRUE,
              name |-> IF name = <<>> THEN Undefined ELSE JSString(name),
              version |-> JSString(rest)]
        ELSE [ok |-> FALSE, name |-> Undefined, version |-> Undefined]

\* (@[^/]+\/)? at the start: '@', a non-empty run without '/', then '/'.
\* 0 when the group cannot match, else the index of its closing '/'.
ScopeEnd(t) ==
    IF Len(t) >= 1 /\ t[1] = "@"
    THEN LET sl == FirstIndex(t, "/", 2) IN IF sl >= 3 THEN sl ELSE 0
    ELSE 0

\* template.match(/^(@[^/]+\/)?([^@]+)?(@.+)?$/): the scope group is tried
\* first; when the rest then fails, the match is retried without it.
MatchPackage(t) ==
    LET se == ScopeEnd(t)
        withScope == MatchNameVersion(t, se + 1)
        noScope == MatchNameVersion(t, 1)
    IN  IF se > 0 /\ withScope.ok
        THEN [ok |-> TRUE, scope |-> JSString(SubSeq(t, 1, se)),
              name |-> withScope.name, version |-> withScope.version]
        ELSE IF noScope.ok
        THEN [ok |-> TRUE, scope |-> Undefined,
              name |-> noScope.name, version |-> noScope.version]
        ELSE [ok |-> FALSE, scope |-> Undefined,
              name |-> Undefined, version |-> Undefined]

(***************************************************************************)
(* path.resolve(programDirectory, p) of Node's posix path module.           *)
(***************************************************************************)
\* process.cwd() of the test run, used when no argument is absolute
Cwd == <<"/", "w">>
IsAbsolute(p) == p # <<>> /\ p[1] = "/"

\* the segments of a path between its '/' separators
RECURSIVE Segments(_)
Segments(s) ==
    LET i == FirstIndex(s, "/", 1) IN
    IF i = 0 THEN <<s>> ELSE <<SubSeq(s, 1, i - 1)>> \o Segments(Tail_(s, i + 1))

\* normalizeString for an absolute path: empty and '.' segments are dropped,
\* '..' removes the segment before it (and is dropped at the root)
RECURSIVE NormalizeSegments(_, _)
NormalizeSegments(segs, acc) ==
    IF segs = <<>> THEN acc
    ELSE LET seg == Head(segs) IN
         NormalizeSegments(Tail(segs),
            IF seg = <<>> \/ seg = <<".">> THEN acc
            ELSE IF seg = <<".", ".">>
                 THEN (IF acc = <<>> THEN acc ELSE SubSeq(acc, 1, Len(acc) - 1))
                 ELSE Append(acc, seg))

RECURSIVE JoinSegments(_)
JoinSegments(segs) ==
    IF segs = <<>> THEN <<>> ELSE Slash \o Head(segs) \o JoinSegments(Tail(segs))

\* path.resolve(base, p): arguments are taken from the right until one is
\* absolute, the working directory standing in when none is
PathResolve(base, p) ==
    LET joined == IF IsAbsolute(p) THEN p
                  ELSE IF IsAbsolute(base) THEN base \o Slash \o p
                  ELSE Cwd \o Slash \o base \o Slash \o p
        norm == JoinSegments(NormalizeSegments(Segments(joined), <<>>))
    IN  IF norm = <<>> THEN Slash ELSE norm

(***************************************************************************)
(* getTemplateInstallPackage(template, programDirectory).                   *)
(***************************************************************************)
\* mutant: the startsWith alternative is lost
IsFamilyName_ExactOnly(templateName) == templateName = DefaultTemplate
\* templateName === 'tjs-template' || templateName.startsWith('tjs-template-')
IsFamilyName(templateName) ==
    \/ templateName = DefaultTemplate
    \/ StartsWith(templateName, DefaultTemplate \o Dash)

\* mutant: the version suffix is dropped
FamilyReference_DropsVersion(scope, templateName, version) == scope \o templateName
\* `${scope}${templateName}${version}`
FamilyReference(scope, templateName, version) == scope \o templateName \o version

\* `${version}/${templateToInstall}`
ScopeOnlyReference(version) == version \o Slash \o DefaultTemplate

\* mutant: the prefix is put before the scope
PrefixedReference_BeforeScope(scope, templateName, version) ==
    DefaultTemplate \o Dash \o scope \o templateName \o version
\* mutant: the dash after the prefix is lost
PrefixedReference_NoDash(scope, templateName, version) ==
    scope \o DefaultTemplate \o templateName \o version
\* `${scope}${templateToInstall}-${templateName}${version}`
PrefixedReference(scope, templateName, version) ==
    scope \o DefaultTemplate \o Dash \o templateName \o version

\* mutant: the scope-only case is not told apart
PackageBranch_NoScopeOnly(scope, templateName, version) ==
    IF templateName = DefaultTemplate \/ StartsWith(templateName, DefaultTemplate \o Dash)
    THEN "family" ELSE "prefixed"
\* the branch taken for a package-style template once it is decomposed
PackageBranch(scope, templateName, version) ==
    IF IsFamilyName(templateName) THEN "family"
    ELSE IF version # <<>> /\ scope = <<>> /\ templateName = <<>> THEN "scopeOnly"
    ELSE "prefixed"

PackageReference(packageMatch) ==
    LET scope == OrEmpty(packageMatch.scope)
        templateName == OrEmpty(packageMatch.name)
        version == OrEmpty(packageMatch.version)
        branch == PackageBranch(scope, templateName, version)
    IN  IF branch = "family" THEN FamilyReference(scope, templateName, version)
        ELSE IF branch = "scopeOnly" THEN ScopeOnlyReference(version)
        ELSE PrefixedReference(scope, templateName, version)

\* mutant: archives are not recognised
IsRemoteOrArchive_UrlOnly(t) == Includes(t, ProtocolSep)
\* template.includes('://') || template.match(/^.+\.(tgz|tar\.gz)$/)
IsRemoteOrArchive(t) == Includes(t, ProtocolSep) \/ MatchArchive(t)

\* file:<path>: reading [1] of a null match throws, and so does path.resolve
\* when handed the undefined group
FileReference(t, programDirectory) ==
    LET m == MatchFilePath(t) IN
    IF ~m.ok \/ ~m.g1.def THEN TypeError
    ELSE Returned(FilePrefix \o PathResolve(programDirectory, m.g1.s))

\* the URL and archive test made before the 'file:' test
getTemplateInstallPackage_ArchiveFirst(template, programDirectory) ==
    IF ~Truthy(template) THEN Returned(DefaultTemplate)
    ELSE IF IsRemoteOrArchive(template.s) THEN Returned(template.s)
    ELSE IF MatchFile(template.s) THEN FileReference(template.s, programDirectory)
    ELSE LET packageMatch == MatchPackage(template.s) IN
         IF ~packageMatch.ok THEN TypeError
         ELSE Returned(PackageReference(packageMatch))

getTemplateInstallPackage(template, programDirectory) ==
    IF ~Truthy(template) THEN Returned(DefaultTemplate)
    ELSE IF MatchFile(template.s) THEN FileReference(template.s, programDirectory)
    ELSE IF IsRemoteOrArchive(template.s) THEN Returned(template.s)
    ELSE LET packageMatch == MatchPackage(template.s) IN
         IF ~packageMatch.ok THEN TypeError
         ELSE Returned(PackageReference(packageMatch))

(***************************************************************************)
(* The project directory and the commands of createProject.                 *)
(***************************************************************************)
PackageJson == <<"p", "a", "c", "k", "a", "g", "e", ".", "j", "s", "o", "n">>
YarnLock == <<"y", "a", "r", "n", ".", "l", "o", "c", "k">>
NodeModules == <<"n", "o", "d", "e", "_", "m", "o", "d", "u", "l", "e", "s">>
PackageLock == <<"p", "a", "c", "k", "a", "g", "e", "-", "l", "o", "c", "k", ".", "j", "s", "o", "n">>
NpmDebugLog == <<"n", "p", "m", "-", "d", "e", "b", "u", "g", ".", "l", "o", "g">>
YarnErrorLog == <<"y", "a", "r", "n", "-", "e", "r", "r", "o", "r", ".", "l", "o", "g">>
YarnDebugLog == <<"y", "a", "r", "n", "-", "d", "e", "b", "u", "g", ".", "l", "o", "g">>
ReadmeMd == <<"R", "E", "A", "D", "M", "E", ".", "m", "d">>
DotGit == <<".", "g", "i", "t">>
AppIml == <<"a", "p", "p", ".", "i", "m", "l">>
SrcDir == <<"s", "r", "c">>
Root == <<"/", "w", "/", "p">>

\* knownGeneratedFiles of the failure handler
KnownGeneratedFiles == {PackageJson, YarnLock, NodeModules}

\* validFiles of validateProjectDirectory
ValidFiles ==
    { <<".", "D", "S", "_", "S", "t", "o", "r", "e">>,
      <<".", "g", "i", "t">>,
      <<".", "g", "i", "t", "a", "t", "t", "r", "i", "b", "u", "t", "e", "s">>,
      <<".", "g", "i", "t", "i", "g", "n", "o", "r", "e">>,
      <<".", "g", "i", "t", "l", "a", "b", "-", "c", "i", ".", "y", "m", "l">>,
      <<".", "h", "g">>,
      <<".", "h", "g", "c", "h", "e", "c", "k">>,
      <<".", "h", "g", "i", "g", "n", "o", "r", "e">>,
      <<".", "i", "d", "e", "a">>,
      <<".", "n", "p", "m", "i", "g", "n", "o", "r", "e">>,
      <<".", "t", "r", "a", "v", "i", "s", ".", "y", "m", "l">>,
      <<"d", "o", "c", "s">>,
      <<"L", "I", "C", "E", "N", "S", "E">>,
      <<"R", "E", "A", "D", "M", "E", ".", "m", "d">>,
      <<"m", "k", "d", "o", "c", "s", ".", "y", "m", "l">>,
      <<"T", "h", "u", "m", "b", "s", ".", "d", "b">> }

\* errorLogFilePatterns of validateProjectDirectory
ErrorLogFilePatterns == {NpmDebugLog, YarnErrorLog, YarnDebugLog}
\* errorLogFilePatterns.some(pattern => file.startsWith(pattern))
IsErrorLog(file) == \E pattern \in ErrorLogFilePatterns : StartsWith(file, pattern)
\* /\.iml$/.test(file)
IsIml(file) == EndsWith(file, <<".", "i", "m", "l">>)
\* the filter with the test of the allowed list turned around
Conflicts_AllowedOnly(entries) ==
    {file \in entries : file \in ValidFiles /\ ~IsIml(file) /\ ~IsErrorLog(file)}

\* the entries validateProjectDirectory reports as conflicts
Conflicts(entries) ==
    {file \in entries : file \notin ValidFiles /\ ~IsIml(file) /\ ~IsErrorLog(file)}

NoReason == [kind |-> "none", command |-> <<>>]
\* reject({command: ...})
CommandFailed(command) == [kind |-> "command", command |-> command]
\* any other rejection: a thrown error
UnexpectedError == [kind |-> "error", command |-> <<>>]

\* the command without its arguments
InstallCommand_CommandOnly(yarn, verb, dependencies, root) ==
    IF yarn THEN <<<<"y", "a", "r", "n", "p", "k", "g">>>> ELSE <<<<"n", "p", "m">>>>

\* the words of `${command} ${args.join(' ')}` in install
InstallCommand(yarn, verb, dependencies, root) ==
    (IF yarn
     THEN <<<<"y", "a", "r", "n", "p", "k", "g">>, <<"a", "d", "d">>, <<"-", "-", "e", "x", "a", "c", "t">>>> \o dependencies \o <<<<"-", "-", "c", "w", "d">>, root>>
     ELSE <<<<"n", "p", "m">>, <<"i", "n", "s", "t", "a", "l", "l">>, <<"-", "-", "s", "a", "v", "e">>, <<"-", "-", "s", "a", "v", "e", "-", "e", "x", "a", "c", "t">>, <<"-", "-", "l", "o", "g", "l", "e", "v", "e", "l">>, <<"e", "r", "r", "o", "r">>>>
          \o dependencies)
    \o (IF verb THEN <<<<"-", "-", "v", "e", "r", "b", "o", "s", "e">>>> ELSE <<>>)

\* the words of `node ${args.join(' ')}` in executeNodeScript, args being []
NodeScriptCommand == <<<<"n", "o", "d", "e">>, <<>>>>


(***************************************************************************)
(* getPackageInfo(installPackage).                                          *)
(***************************************************************************)
\* s.split(c)
RECURSIVE Split(_, _)
Split(s, c) ==
    LET i == FirstIndex(s, c, 1) IN
    IF i = 0 THEN <<s>> ELSE <<SubSeq(s, 1, i - 1)>> \o Split(Tail_(s, i + 1), c)

\* installPackage.match(/.+@/)
MatchVersioned(t) == \E i \in 2..Len(t) : t[i] = "@" /\ ~IsLineTerminator(t[i - 1])

NoPackageInfo == [name |-> Undefined, version |-> Undefined]

\* name and version as the package's own package.json states them (an
\* archive, a git+ URL or a file: path: read from outside the program)
DeclaredPackageInfo ==
    { [name |-> JSString(<<"p", "k", "g">>), version |-> JSString(<<"1">>)],
      [name |-> JSString(<<"@", "s", "/", "p", "k", "g">>), version |-> Undefined] }

\* the /.+@/ branch:
\*   name: installPackage.charAt(0) + installPackage.substr(1).split('@')[0]
\*   version: installPackage.split('@')[1]
VersionedPackageInfo(installPackage) ==
    [name |-> JSString(<<installPackage[1]>> \o Split(Tail_(installPackage, 2), "@")[1]),
     version |-> JSString(Split(installPackage, "@")[2])]

\* the set of values getPackageInfo may resolve with
getPackageInfo(installPackage) ==
    IF MatchArchive(installPackage) THEN DeclaredPackageInfo
    ELSE IF StartsWith(installPackage, <<"g", "i", "t", "+">>) THEN DeclaredPackageInfo
    ELSE IF MatchVersioned(installPackage) THEN {VersionedPackageInfo(installPackage)}
    ELSE IF MatchFile(installPackage) THEN DeclaredPackageInfo
    ELSE {[name |-> JSString(installPackage), version |-> Undefined]}

(***************************************************************************)
(* State.                                                                   *)
(***************************************************************************)
VARIABLES
    template,           \* the --template value (a string, or undefined)
    programDirectory,   \* the directory the CLI was started in
    templateToInstall,  \* the completion of getTemplateInstallPackage
    original,           \* the template of the first call
    previous,           \* the completion of the call before this one
    pc,                 \* position of the run
    useYarn,            \* --use-yarn
    verbose,            \* --verbose
    rootExists,         \* the project directory exists
    files,              \* the entries of the project directory
    before,             \* the entries it held when the run began
    toolchainToInstall, \* the 'toolchain' field of the template's manifest
    steps,              \* the pipeline steps started so far, in order
    reason,             \* the rejection handed to the failure handler
    output,             \* the messages printed by the failure handler
    exitCode,           \* the exit status of the process, -1 while it runs
    closeCode,          \* the code the last child process closed with, -1 before
    templatePackageInfo,    \* getPackageInfo(templateToInstall)
    toolchainPackageInfo    \* getPackageInfo(toolchainToInstall)

resolverVars == <<template, programDirectory, templateToInstall, original, previous>>
projectVars ==
    <<useYarn, verbose, rootExists, files, before, toolchainToInstall, steps, reason,
      output, exitCode, closeCode, templatePackageInfo, toolchainPackageInfo>>
infoVars == <<templatePackageInfo, toolchainPackageInfo>>
vars == <<resolverVars, pc, projectVars>>

(***************************************************************************)
(* Inputs of the resolver: every concatenation of at most MaxParts          *)
(* fragments, and the absent template.                                      *)
(***************************************************************************)
Fragments ==
    { FilePrefix, ProtocolSep, ExtTgz, ExtTarGz, DefaultTemplate, Dash, Slash,
      <<"@">>, <<"a">>, <<"\n">>, <<".", ".">>, <<"@", "s", "/">>, <<"@", "1">> }

RECURSIVE Concatenations(_)
Concatenations(n) ==
    IF n = 0 THEN {<<>>}
    ELSE LET shorter == Concatenations(n - 1) IN
         shorter \cup {p \o f : p \in shorter, f \in Fragments}

TemplateInputs == {Undefined} \cup {JSString(s) : s \in Concatenations(MaxParts)}
ProgramDirectories == { <<"/", "w", "/", "p">>, <<"q">> }

(***************************************************************************)
(* The resolver called on its own, as the test suite calls it, and called   *)
(* once more on the reference it returned.                                  *)
(***************************************************************************)
Init ==
    /\ template \in TemplateInputs
    /\ programDirectory \in ProgramDirectories
    /\ templateToInstall = NotCalled
    /\ original = template
    /\ previous = NotCalled
    /\ pc = "call"
    /\ useYarn = FALSE
    /\ verbose = FALSE
    /\ rootExists = FALSE
    /\ files = {}
    /\ before = {}
    /\ toolchainToInstall = Undefined
    /\ steps = <<>>
    /\ reason = NoReason
    /\ output = {}
    /\ exitCode = -1
    /\ closeCode = -1
    /\ templatePackageInfo = NoPackageInfo
    /\ toolchainPackageInfo = NoPackageInfo

Resolve ==
    /\ pc = "call"
    /\ templateToInstall' = getTemplateInstallPackage(template, programDirectory)
    /\ pc' = "returned"
    /\ UNCHANGED <<template, programDirectory, original, previous, projectVars>>

ResolveAgain ==
    /\ pc = "returned"
    /\ previous = NotCalled
    /\ templateToInstall.kind = "string"
    /\ template' = JSString(templateToInstall.s)
    /\ previous' = templateToInstall
    /\ templateToInstall' = NotCalled
    /\ pc' = "call"
    /\ UNCHANGED <<programDirectory, original, projectVars>>

Next == Resolve \/ ResolveAgain

Spec == Init /\ [][Next]_vars

(***************************************************************************)
(* A run of the CLI: init validates the project directory and calls         *)
(* createProject, whose promise chain resolves the template, installs the   *)
(* template and the toolchain and runs the toolchain's init script; any     *)
(* rejection lands in the chain's catch handler.                            *)
(***************************************************************************)
\* --template values given on the command line
ProjectTemplates ==
    { JSString(<<"a">>), JSString(<<"@", "s", "/", "a", "@", "1">>), JSString(<<"@">>),
      JSString(FilePrefix \o <<"a">>), JSString(<<"a">> \o ExtTgz) }

\* entries a project directory may hold before the run
UserEntries == {ReadmeMd, AppIml, NpmDebugLog, SrcDir, PackageJson}

\* the 'toolchain' field of a template.json manifest
ToolchainReferences == {<<"t", "c">>, <<"@", "s", "/", "t", "c", "@", "1">>}

\* exit codes of a spawned child process
ChildExitCodes == {0, 1}

\* getPackageInfo can reject for an archive it cannot unpack and name, for a
\* git+ URL it cannot name and for a file: path without package.json; a
\* registry reference always resolves
PackageInfoMayReject(installPackage) ==
    \/ MatchArchive(installPackage)
    \/ StartsWith(installPackage, <<"g", "i", "t", "+">>)
    \/ ~MatchVersioned(installPackage) /\ MatchFile(installPackage)

\* what a package manager run may leave in the project directory
InstallLeftovers(yarn, code) ==
    LET lock == IF yarn THEN YarnLock ELSE PackageLock
        log == IF yarn THEN YarnErrorLog ELSE NpmDebugLog
    IN  IF code = 0
        THEN {{NodeModules}, {NodeModules, lock}}
        ELSE SUBSET {NodeModules, lock, log}

ProjectInit ==
    /\ template \in ProjectTemplates
    /\ programDirectory = Cwd
    /\ templateToInstall = NotCalled
    /\ original = template
    /\ previous = NotCalled
    /\ pc = "init"
    /\ useYarn \in BOOLEAN
    /\ verbose \in BOOLEAN
    /\ rootExists \in BOOLEAN
    /\ files \in SUBSET UserEntries
    /\ (~rootExists => files = {})
    /\ before = files
    /\ toolchainToInstall = Undefined
    /\ steps = <<>>
    /\ reason = NoReason
    /\ output = {}
    /\ exitCode = -1
    /\ closeCode = -1
    /\ templatePackageInfo = NoPackageInfo
    /\ toolchainPackageInfo = NoPackageInfo

\* process.exit(code)
Exit(code) == exitCode' = code /\ pc' = "exited"

\* init up to validateProjectDirectory: a failed environment or name check
\* exits first; the directory is created if missing; conflicts exit, else old
\* error logs are removed
ValidateProject ==
    /\ pc = "init"
    /\ \E environmentOk \in BOOLEAN :
         IF ~environmentOk
         THEN Exit(1) /\ UNCHANGED <<rootExists, files>>
         ELSE /\ rootExists' = TRUE
              /\ IF Conflicts(files) # {}
                 THEN Exit(1) /\ UNCHANGED files
                 ELSE /\ files' = {file \in files : ~IsErrorLog(file)}
                      /\ pc' = "versionCheck"
                      /\ UNCHANGED exitCode
    /\ UNCHANGED <<resolverVars, useYarn, verbose, before, toolchainToInstall, steps,
                   reason, output, closeCode, infoVars>>

\* the callback after validateCreateToolchainVersion, and createProject up to
\* the call of getTemplateInstallPackage: an outdated CLI exits; package.json
\* is written; a TypeError of the resolver is thrown out of createProject,
\* past the chain's catch handler, and leaves a rejected promise nobody handles
CreateProject ==
    /\ pc = "versionCheck"
    /\ \E outdated \in BOOLEAN :
         IF outdated
         THEN Exit(1) /\ UNCHANGED <<files, templateToInstall, steps>>
         ELSE /\ files' = files \cup {PackageJson}
              /\ templateToInstall' = getTemplateInstallPackage(template, programDirectory)
              /\ steps' = Append(steps, "resolve")
              /\ pc' = IF templateToInstall'.kind = "string"
                       THEN "templateInfo" ELSE "unhandled"
              /\ UNCHANGED exitCode
    /\ UNCHANGED <<template, programDirectory, original, previous, useYarn, verbose,
                   rootExists, before, toolchainToInstall, reason, output, closeCode,
                   infoVars>>

\* getPackageInfo(templateToInstall)
TemplatePackageInfo ==
    /\ pc = "templateInfo"
    /\ \E rejects \in BOOLEAN :
         /\ rejects => PackageInfoMayReject(templateToInstall.s)
         /\ IF rejects
            THEN /\ reason' = UnexpectedError /\ pc' = "catch"
                 /\ UNCHANGED templatePackageInfo
            ELSE /\ reason' = reason /\ pc' = "installTemplate"
                 /\ templatePackageInfo' \in getPackageInfo(templateToInstall.s)
    /\ steps' = Append(steps, "templateInfo")
    /\ UNCHANGED <<resolverVars, useYarn, verbose, rootExists, files, before,
                   toolchainToInstall, output, exitCode, closeCode, toolchainPackageInfo>>

\* install that goes on to resolve after it rejected
Install_ResolvesAfterReject(dependencies, step, nextPc) ==
    /\ \E code \in ChildExitCodes :
         /\ closeCode' = code
         /\ \E left \in InstallLeftovers(useYarn, code) : files' = files \cup left
         /\ IF code # 0
            THEN reason' = CommandFailed(InstallCommand(useYarn, verbose, dependencies, Root))
            ELSE reason' = reason
         /\ pc' = nextPc
    /\ steps' = Append(steps, step)
    /\ UNCHANGED <<resolverVars, useYarn, verbose, rootExists, before,
                   toolchainToInstall, output, exitCode, infoVars>>

\* install(root, dependencies, useYarn, verbose): the child closes with a code;
\* a non-zero code rejects with the command line
Install(dependencies, step, nextPc) ==
    /\ \E code \in ChildExitCodes :
         /\ closeCode' = code
         /\ \E left \in InstallLeftovers(useYarn, code) : files' = files \cup left
         /\ IF code # 0
            THEN /\ reason' = CommandFailed(InstallCommand(useYarn, verbose, dependencies, Root))
                 /\ pc' = "catch"
            ELSE reason' = reason /\ pc' = nextPc
    /\ steps' = Append(steps, step)
    /\ UNCHANGED <<resolverVars, useYarn, verbose, rootExists, before,
                   toolchainToInstall, output, exitCode, infoVars>>

InstallTemplate ==
    /\ pc = "installTemplate"
    /\ Install(<<templateToInstall.s>>, "installTemplate", "manifest")

\* the template's manifest: locating the installed template may throw; a
\* missing template.json or 'toolchain' field exits on the spot; then
\* getPackageInfo(toolchainToInstall)
ReadManifest ==
    /\ pc = "manifest"
    /\ \E manifest \in {"unresolvable", "missing", "noToolchain", "ok"} :
         CASE manifest = "unresolvable" ->
                /\ reason' = UnexpectedError /\ pc' = "catch"
                /\ UNCHANGED <<toolchainToInstall, exitCode, toolchainPackageInfo>>
           [] manifest \in {"missing", "noToolchain"} ->
                /\ Exit(1)
                /\ UNCHANGED <<toolchainToInstall, reason, toolchainPackageInfo>>
           [] OTHER ->
                \E toolchain \in ToolchainReferences, rejects \in BOOLEAN :
                    /\ rejects => PackageInfoMayReject(toolchain)
                    /\ toolchainToInstall' = JSString(toolchain)
                    /\ IF rejects
                       THEN /\ reason' = UnexpectedError /\ pc' = "catch"
                            /\ UNCHANGED toolchainPackageInfo
                       ELSE /\ reason' = reason /\ pc' = "installToolchain"
                            /\ toolchainPackageInfo' \in getPackageInfo(toolchain)
                    /\ UNCHANGED exitCode
    /\ steps' = Append(steps, "manifest")
    /\ UNCHANGED <<resolverVars, useYarn, verbose, rootExists, files, before, output,
                   closeCode, templatePackageInfo>>

InstallToolchain ==
    /\ pc = "installToolchain"
    /\ Install(<<toolchainToInstall.s>>, "installToolchain", "initScript")

\* executeNodeScript with the toolchain's scripts/init.js: the script copies
\* the template's files; a non-zero code rejects, else the chain is done and
\* the process ends with status 0
RunInitScript ==
    /\ pc = "initScript"
    /\ \E code \in ChildExitCodes, copied \in SUBSET {SrcDir} :
         /\ closeCode' = code
         /\ files' = files \cup copied
         /\ IF code # 0
            THEN /\ reason' = CommandFailed(NodeScriptCommand)
                 /\ pc' = "catch"
                 /\ UNCHANGED exitCode
            ELSE reason' = reason /\ Exit(0)
    /\ steps' = Append(steps, "initScript")
    /\ UNCHANGED <<resolverVars, useYarn, verbose, rootExists, before,
                   toolchainToInstall, output, infoVars>>

\* the handler removing every entry of the directory
FailureHandler_RemovesEverything ==
    /\ pc = "catch"
    /\ files' = {}
    /\ output' = output \cup {"Aborting installation."}
    /\ pc' = "unhandled"
    /\ UNCHANGED <<resolverVars, useYarn, verbose, rootExists, before,
                   toolchainToInstall, steps, reason, exitCode, closeCode, infoVars>>

\* the catch handler of createProject: it reports the rejection and removes
\* the known generated files; when nothing remains, building the next message
\* reads appName, which createProject does not define: a ReferenceError ends
\* the handler before the directory is removed, 'Done.' is printed and
\* process.exit(1) is reached
FailureHandler ==
    /\ pc = "catch"
    /\ LET remainingFiles == files \ KnownGeneratedFiles
           report == IF reason.kind = "command"
                     THEN {"Aborting installation.", "has failed."}
                     ELSE {"Aborting installation.", "Unexpected error."}
       IN  /\ files' = remainingFiles
           /\ IF remainingFiles = {}
              THEN /\ output' = output \cup report
                   /\ pc' = "unhandled"
                   /\ UNCHANGED exitCode
              ELSE /\ output' = output \cup report \cup {"Done."}
                   /\ Exit(1)
    /\ UNCHANGED <<resolverVars, useYarn, verbose, rootExists, before,
                   toolchainToInstall, steps, reason, closeCode, infoVars>>

\* a rejected promise nobody handles: Node 15 and later end the process with
\* status 1, Node 12 to 14 (which index.js accepts) print a warning and the
\* process ends with status 0
UnhandledRejection ==
    /\ pc = "unhandled"
    /\ \E code \in {0, 1} : Exit(code)
    /\ UNCHANGED <<resolverVars, useYarn, verbose, rootExists, files, before,
                   toolchainToInstall, steps, reason, output, closeCode, infoVars>>

ProjectNext ==
    \/ ValidateProject
    \/ CreateProject
    \/ TemplatePackageInfo
    \/ InstallTemplate
    \/ ReadManifest
    \/ InstallToolchain
    \/ RunInitScript
    \/ FailureHandler
    \/ UnhandledRejection

ProjectSpec == ProjectInit /\ [][ProjectNext]_vars

(***************************************************************************)
(* Properties of the resolver.                                              *)
(***************************************************************************)
\* the call has returned or thrown
Called == pc = "returned"
\* the template as the reader of the CLI help sees it
LooksLikeFile(t) == StartsWith(t, FilePrefix)
LooksRemoteOrArchive(t) ==
    Includes(t, ProtocolSep) \/ EndsWith(t, ExtTgz) \/ EndsWith(t, ExtTarGz)
HasLineBreak(t) == \E i \in 1..Len(t) : t[i] = "\n"
\* the third classification: neither a local path nor a URL or archive
PackageStyle(v) == Truthy(v) /\ ~MatchFile(v.s) /\ ~IsRemoteOrArchive(v.s)
\* a package-style template the decomposition accepts
Decomposed(v) == PackageStyle(v) /\ MatchPackage(v.s).ok
ScopeOf(v) == OrEmpty(MatchPackage(v.s).scope)
NameOf(v) == OrEmpty(MatchPackage(v.s).name)
VersionOf(v) == OrEmpty(MatchPackage(v.s).version)
ScopeOnlyForm(v) ==
    Decomposed(v) /\ VersionOf(v) # <<>> /\ ScopeOf(v) = <<>> /\ NameOf(v) = <<>>
InFamily(n) ==
    n = DefaultTemplate \/ StartsWith(n, DefaultTemplate \o <<"-">>)

\* C1 (as claimed): getTemplateInstallPackage is total: every call on a string
\* template and a string base directory returns a string and raises no error.
C1_Total == Called => templateToInstall.kind = "string"

\* C2 (as claimed): resolution is idempotent: whenever the reference r returned
\* for a template is neither a 'file:' reference nor a URL or archive reference,
\* resolving r again returns r, also when r came from the scope-only branch.
C2_Idempotent ==
    (Called /\ previous.kind = "string"
        /\ ~LooksLikeFile(previous.s) /\ ~LooksRemoteOrArchive(previous.s))
    => templateToInstall = previous

\* C2 (amended): the same, except that a reference produced by the scope-only
\* branch is only claimed to be a fixed point when the '@'-fragment it was
\* made from contains no '/'.
C2_IdempotentUnlessSlashInFragment ==
    (Called /\ previous.kind = "string"
        /\ ~LooksLikeFile(previous.s) /\ ~LooksRemoteOrArchive(previous.s)
        /\ (ScopeOnlyForm(original) => ~Includes(original.s, Slash)))
    => templateToInstall = previous

C2_Witness ==
    /\ Called /\ previous.kind = "string"
    /\ ScopeOnlyForm(original) /\ ~Includes(original.s, Slash)
    /\ templateToInstall = previous

\* C3: a package-style template whose decomposed name is 'tjs-template' or
\* starts with 'tjs-template-' is returned exactly as given, whatever its
\* '@scope/' prefix and '@version' suffix.
C3_FamilyUnchanged ==
    (Called /\ Decomposed(template) /\ InFamily(NameOf(template)))
    => templateToInstall = Returned(template.s)

C3_Witness ==
    /\ Called /\ Decomposed(template) /\ InFamily(NameOf(template))
    /\ ScopeOf(template) # <<>> /\ VersionOf(template) # <<>>
    /\ templateToInstall = Returned(template.s)

\* C4: a package-style template whose name is outside the family, and that is
\* not the scope-only form, resolves to scope + 'tjs-template-' + name +
\* version, where scope, name and version are the parts of the input in order.
C4_PrefixInjected ==
    (Called /\ Decomposed(template) /\ ~InFamily(NameOf(template))
        /\ ~ScopeOnlyForm(template))
    => /\ template.s = ScopeOf(template) \o NameOf(template) \o VersionOf(template)
       /\ templateToInstall =
            Returned(ScopeOf(template) \o DefaultTemplate \o <<"-">>
                     \o NameOf(template) \o VersionOf(template))

C4_Witness ==
    /\ Called /\ Decomposed(template) /\ ~InFamily(NameOf(template))
    /\ ScopeOf(template) # <<>> /\ NameOf(template) # <<>>
    /\ VersionOf(template) # <<>>
    /\ templateToInstall.kind = "string"

\* C5: a template that is only an '@'-prefixed fragment resolves to that
\* fragment followed by '/tjs-template'.
C5_ScopeOnly ==
    (Called /\ ScopeOnlyForm(template))
    => /\ template.s = VersionOf(template)
       /\ templateToInstall = Returned(template.s \o <<"/">> \o DefaultTemplate)

C5_Witness ==
    /\ Called /\ ScopeOnlyForm(template) /\ template.s = <<"@", "a">>
    /\ templateToInstall = Returned(<<"@", "a", "/">> \o DefaultTemplate)

\* C6 (as claimed): a template that does not start with 'file:' and contains
\* '://' or ends with '.tgz' or '.tar.gz' is returned verbatim.
C6_Verbatim ==
    (Called /\ Truthy(template) /\ ~LooksLikeFile(template.s)
        /\ LooksRemoteOrArchive(template.s))
    => templateToInstall = Returned(template.s)

\* C6 (amended): a template that does not start with 'file:' and contains
\* '://', or consists of at least one character followed by '.tgz' or
\* '.tar.gz' and holds no line break, is returned verbatim.
C6_VerbatimWithStem ==
    (Called /\ Truthy(template) /\ ~LooksLikeFile(template.s)
        /\ \/ Includes(template.s, ProtocolSep)
           \/ /\ ~HasLineBreak(template.s)
              /\ \/ EndsWith(template.s, ExtTgz) /\ Len(template.s) > Len(ExtTgz)
                 \/ EndsWith(template.s, ExtTarGz) /\ Len(template.s) > Len(ExtTarGz))
    => templateToInstall = Returned(template.s)

C6_Witness ==
    /\ Called /\ template = JSString(<<"@", "a">> \o ExtTarGz)
    /\ templateToInstall = Returned(template.s)

\* C7 (as claimed): a template 'file:' + p, for any suffix p including the
\* empty one, resolves to 'file:' followed by p resolved against the base
\* directory.
C7_FileResolved ==
    (Called /\ Truthy(template) /\ LooksLikeFile(template.s))
    => templateToInstall =
         Returned(FilePrefix \o
                  PathResolve(programDirectory, Tail_(template.s, Len(FilePrefix) + 1)))

\* C8: an absent or empty template resolves to 'tjs-template', for any base
\* directory.
C8_Default ==
    (Called /\ (template = Undefined \/ template = JSString(<<>>)))
    => templateToInstall = Returned(DefaultTemplate)

C8_Witness ==
    /\ Called /\ template = JSString(<<>>) /\ programDirectory = <<"q">>
    /\ templateToInstall = Returned(DefaultTemplate)

\* a template of the form [@scope/]n with n a non-empty name without '@'
NameForm(v) ==
    /\ Truthy(v)
    /\ Len(v.s) > ScopeEnd(v.s)
    /\ ~Includes(Tail_(v.s, ScopeEnd(v.s) + 1), <<"@">>)
BareName(v) == Tail_(v.s, ScopeEnd(v.s) + 1)
WithFamilyPrefix(v) ==
    JSString(SubSeq(v.s, 1, ScopeEnd(v.s)) \o DefaultTemplate \o <<"-">> \o BareName(v))

\* C9 (as claimed): for every template name n, optionally preceded by
\* '@scope/', resolving n and resolving 'tjs-template-' + n under the same
\* scope give the same reference.
C9_PrefixOptional ==
    (Called /\ NameForm(template))
    => templateToInstall =
         getTemplateInstallPackage(WithFamilyPrefix(template), programDirectory)

\* C9 (amended): the same for every name n that is not 'tjs-template' and does
\* not start with 'tjs-template-', where [@scope/]n does not start with
\* 'file:', contain '://' or end with '.tgz' or '.tar.gz'.
C9_PrefixOptionalForShortNames ==
    (Called /\ NameForm(template) /\ ~InFamily(BareName(template))
        /\ ~LooksLikeFile(template.s) /\ ~LooksRemoteOrArchive(template.s))
    => /\ templateToInstall.kind = "string"
       /\ templateToInstall =
            getTemplateInstallPackage(WithFamilyPrefix(template), programDirectory)

C9_Witness ==
    /\ Called /\ template = JSString(<<"@", "s", "/", "a">>)
    /\ templateToInstall = Returned(<<"@", "s", "/">> \o DefaultTemplate \o <<"-", "a">>)
    /\ templateToInstall =
         getTemplateInstallPackage(WithFamilyPrefix(template), programDirectory)

\* what the local-path rule gives for a template starting with 'file:': the
\* rest resolved against the base directory, or the TypeError of C1 and C7
LocalPathOutcomes ==
    { TypeError,
      Returned(FilePrefix \o
               PathResolve(programDirectory, Tail_(template.s, Len(FilePrefix) + 1))) }

C16_PartsCoverInput ==
    (Called /\ Decomposed(template))
    => /\ ScopeOf(template) \o NameOf(template) \o VersionOf(template) = template.s
       /\ ScopeOf(template) # <<>>
            => /\ Head(ScopeOf(template)) = "@"
               /\ ScopeOf(template)[Len(ScopeOf(template))] = "/"
       /\ ~Includes(NameOf(template), <<"@">>)
       /\ VersionOf(template) # <<>> => Head(VersionOf(template)) = "@"

C16_Witness ==
    /\ Called /\ template = JSString(<<"@", "s", "/", "a", "@", "1">>)
    /\ ScopeOf(template) = <<"@", "s", "/">>
    /\ NameOf(template) = <<"a">>
    /\ VersionOf(template) = <<"@", "1">>
    /\ templateToInstall.kind = "string"

(***************************************************************************)
(* Properties of a run of createProject.                                    *)
(***************************************************************************)
\* a step of the pipeline rejected and the run has ended
FailedRun == pc = "exited" /\ reason # NoReason

\* C10 (as claimed): whenever a step of the pipeline rejects, the failure
\* handler removes package.json, yarn.lock and node_modules and the process
\* exits with a non-zero status, whether or not the directory is left empty.
C10_FailureCleansUpAndExitsNonZero ==
    FailedRun => /\ files \cap KnownGeneratedFiles = {}
                 /\ exitCode > 0

\* the run was ended by one of the manifest checks of createProject: the
\* installed template has no template.json, or its manifest has no
\* 'toolchain' field
EndedAtManifestCheck ==
    /\ pc = "exited"
    /\ reason = NoReason
    /\ steps # <<>>
    /\ steps[Len(steps)] = "manifest"

\* C11 (as claimed): when the installed template has no template.json
\* manifest, or its manifest has no 'toolchain' field, the run ends with a
\* non-zero exit status and package.json, node_modules and yarn.lock have
\* been removed from the target directory.
C11_ManifestFailureCleansUp ==
    EndedAtManifestCheck => /\ exitCode > 0
                            /\ files \cap KnownGeneratedFiles = {}

\* the steps of createProject, in the order of its promise chain
PipelineOrder ==
    <<"resolve", "templateInfo", "installTemplate", "manifest", "installToolchain",
      "initScript">>

\* C12: the steps of createProject happen in a fixed order (the template
\* reference is resolved, the template is installed, the toolchain named by
\* the manifest is installed, the init script is executed): every step that
\* starts is the next one of that order and starts only when nothing before
\* it rejected or ended the run; the toolchain install starts only after the
\* template install closed with code 0, and the init script only after the
\* toolchain install did.
C12_FixedOrder ==
    [][ steps' # steps =>
          /\ Len(steps') = Len(steps) + 1
          /\ steps' = SubSeq(PipelineOrder, 1, Len(steps'))
          /\ reason = NoReason
          /\ exitCode = -1
          /\ steps'[Len(steps')] \in {"installToolchain", "initScript"}
               => /\ closeCode = 0
                  /\ NodeModules \in files ]_vars

C12_Witness ==
    /\ steps = PipelineOrder
    /\ pc = "exited"
    /\ exitCode = 0
    /\ reason = NoReason

\* the last step started is an install, of this dependency
LastStep == steps[Len(steps)]
AfterInstall == steps # <<>> /\ LastStep \in {"installTemplate", "installToolchain"}
InstalledDependency ==
    IF LastStep = "installTemplate" THEN templateToInstall.s ELSE toolchainToInstall.s
StepAfterInstall == IF LastStep = "installTemplate" THEN "manifest" ELSE "initScript"

\* words is the command line of the chosen package manager installing dep in
\* the target directory
IsInstallCommandLine(words, dep) ==
    /\ Len(words) >= 3
    /\ IF useYarn
       THEN /\ SubSeq(words, 1, 2) = <<<<"y", "a", "r", "n", "p", "k", "g">>, <<"a", "d", "d">>>>
            /\ \E i \in 3..Len(words) - 2 :
                 /\ words[i] = dep
                 /\ words[i + 1] = <<"-", "-", "c", "w", "d">>
                 /\ words[i + 2] = Root
       ELSE /\ SubSeq(words, 1, 2) = <<<<"n", "p", "m">>, <<"i", "n", "s", "t", "a", "l", "l">>>>
            /\ \E i \in 3..Len(words) : words[i] = dep
    /\ verbose => words[Len(words)] = <<"-", "-", "v", "e", "r", "b", "o", "s", "e">>

\* C13: install resolves exactly when the package manager closes with exit
\* code 0 (the next step of the chain is then due); for any other code it
\* rejects with a value whose 'command' field is the command line that was
\* run (npm install or yarnpkg add, with the dependency), which the failure
\* handler reports as the command that has failed.
C13_InstallResult ==
    AfterInstall =>
        /\ (closeCode = 0) <=> (reason = NoReason)
        /\ closeCode = 0 => pc = StepAfterInstall
        /\ closeCode # 0 =>
             /\ reason.kind = "command"
             /\ IsInstallCommandLine(reason.command, InstalledDependency)
             /\ pc \in {"catch", "unhandled", "exited"}
             /\ pc # "catch" => /\ "has failed." \in output
                                /\ "Unexpected error." \notin output

C13_Witness ==
    /\ AfterInstall /\ LastStep = "installToolchain"
    /\ closeCode = 1 /\ useYarn /\ verbose
    /\ pc = "exited"
    /\ "has failed." \in output

\* an install reference of the form [@scope/]name@version that is neither an
\* archive nor a git+ URL
VersionedForm(ref) ==
    /\ ~MatchArchive(ref)
    /\ ~StartsWith(ref, <<"g", "i", "t", "+">>)
    /\ MatchPackage(ref).ok
    /\ Truthy(MatchPackage(ref).name)
    /\ Truthy(MatchPackage(ref).version)
    /\ Len(MatchPackage(ref).version.s) > 1

\* the reference without its '@version' suffix, and the text after that '@'
NameAndVersion(ref) ==
    [name |-> JSString(OrEmpty(MatchPackage(ref).scope) \o MatchPackage(ref).name.s),
     version |-> JSString(Tail_(MatchPackage(ref).version.s, 2))]

\* C14 (as claimed): for every install reference [@scope/]name@version that is
\* not an archive and not a git+ URL, getPackageInfo returns the reference
\* without its '@version' suffix as the name and the text after the version
\* '@' as the version, for scoped and unscoped references alike.
C14_NameAndVersion ==
    /\ (templatePackageInfo # NoPackageInfo /\ VersionedForm(templateToInstall.s))
         => templatePackageInfo = NameAndVersion(templateToInstall.s)
    /\ (toolchainPackageInfo # NoPackageInfo /\ VersionedForm(toolchainToInstall.s))
         => toolchainPackageInfo = NameAndVersion(toolchainToInstall.s)

\* C17 (as claimed): after a failed run, if removing package.json, yarn.lock
\* and node_modules leaves the target directory empty, the directory itself
\* is deleted, 'Done.' is printed and the process exits with status 1.
C17_EmptiedDirectoryDeleted ==
    (FailedRun /\ files = {})
    => /\ ~rootExists
       /\ "Done." \in output
       /\ exitCode = 1

\* the directory holds an entry that is not on the allowed list, does not end
\* in '.iml' and does not start with an error-log name
HasConflict(entries) ==
    \E file \in entries :
        /\ file \notin ValidFiles
        /\ ~EndsWith(file, <<".", "i", "m", "l">>)
        /\ ~StartsWith(file, NpmDebugLog)
        /\ ~StartsWith(file, YarnErrorLog)
        /\ ~StartsWith(file, YarnDebugLog)

\* C18: project creation never starts in a conflicting directory: once init
\* has validated a directory that holds a conflicting entry, the process has
\* exited with status 1, no step of createProject has run (no package.json
\* written, no child process started) and every entry of the directory, old
\* error logs included, is still there.
C18_NoStartInConflictingDirectory ==
    (HasConflict(before) /\ pc # "init")
    => /\ pc = "exited"
       /\ exitCode = 1
       /\ steps = <<>>
       /\ closeCode = -1
       /\ files = before

C18_Witness ==
    /\ before = {SrcDir, NpmDebugLog}
    /\ pc = "exited"
    /\ exitCode = 1
    /\ files = {SrcDir, NpmDebugLog}

\* C19: no run deletes a user's file: every entry that was in the target
\* directory before the run and is not an error log of a previous install is
\* in the directory at every moment of the run, its end included, and a
\* directory that held such an entry is never deleted.
C19_UserFilesKept ==
    /\ \A file \in before : ~IsErrorLog(file) => file \in files
    /\ (\E file \in before : ~IsErrorLog(file)) => rootExists

C19_Witness ==
    /\ before = {ReadmeMd, NpmDebugLog}
    /\ FailedRun
    /\ files = {ReadmeMd}
    /\ "Done." \in output

====
